---- MODULE Spec2Model ----
(***************************************************************************)
(* permtree (src/src/main.rs): list file owners and permissions in a       *)
(* compact tree view, or as a list of recursive chown/chgrp/chmod          *)
(* commands.                                                               *)
(*                                                                         *)
(* Text (file names, user names, command words) is a sequence of byte      *)
(* values.  Option<T> is a sequence of length 0 (None) or 1 (Some).        *)
(* io::Result<T> is a record [ok |-> TRUE, val |-> v] or                   *)
(* [ok |-> FALSE, err |-> kind].                                           *)
(***************************************************************************)
EXTENDS Integers, Sequences, FiniteSets, TLC

VARIABLES
    args,      \* Args: [command_mode, directories]
    fs,        \* the filesystem entry (with everything below it) found at an existing path
    pc,        \* position in main (or in the library harness)
    idx,       \* loop index of the `for` loop main is in
    paths,     \* main: the canonicalized paths
    root,      \* Option<Node>: the tree handed to the renderers
    todo,      \* preorder_traversal: the pending calls, innermost first
    path,      \* display_commands: the path stack
    output,    \* display_*: the output buffer, a sequence of lines
    last,      \* Option: the visit that was just made (node, depth, chain, stack length before)
    stdout,    \* what the process has printed, one element per print
    status     \* Option<exit status> of the process

vars == <<args, fs, pc, idx, paths, root, todo, path, output, last, stdout, status>>

-----------------------------------------------------------------------------
(* Option and io::Result *)

None == <<>>
Some(v) == <<v>>
Ok(v) == [ok |-> TRUE, val |-> v]
Err(e) == [ok |-> FALSE, err |-> e]

RECURSIVE Concat(_)
Concat(ss) == IF ss = <<>> THEN <<>> ELSE Head(ss) \o Concat(Tail(ss))

-----------------------------------------------------------------------------
(* Bounds of the checked inputs *)

\* attribute-complete filesystems have at most this many entries
MaxNodes == 3
\* shape-complete filesystems have at most this many entries
MaxWalkNodes == 4
\* main gets at most this many directory arguments
MaxArgs == 2

-----------------------------------------------------------------------------
(* Metadata *)

\* `metadata.mode() & 0o7777`: the low 12 bits
PermModulus == 4096
\* Metadata::is_dir: (st_mode & S_IFMT) == S_IFDIR, S_IFMT being the four bits above
\* the permission bits
S_IFDIR == 16384

is_dir(metadata) ==
    ((metadata.st_mode \div PermModulus) % 16) * PermModulus = S_IFDIR

\* maybe_override gone wrong: it keeps the parent's value
maybe_override_parent(parent, child) == IF parent = child THEN None ELSE Some(parent)

maybe_override(parent, child) == IF parent = child THEN None ELSE Some(child)

\* ls: read_dir's entries in the order read_dir returns them, or its error
ls(p) == p.ls

FileKind(metadata) == IF is_dir(metadata) THEN "Directory" ELSE "Leaf"

RECURSIVE build_tree_stale(_, _)
\* build_tree gone wrong: the children are compared with the context this node got,
\* not with this node's own values
build_tree_stale(p, maybe_parent_data) ==
    [name |-> p.name,
     data |->
        IF ~p.meta.ok THEN Err(p.meta.err)
        ELSE LET metadata == p.meta.val
                 perms == metadata.st_mode % PermModulus
                 ov == IF maybe_parent_data # None
                       THEN LET parent_data == maybe_parent_data[1]
                            IN  <<maybe_override(parent_data.perms, perms),
                                  maybe_override(parent_data.uid, metadata.uid),
                                  maybe_override(parent_data.gid, metadata.gid)>>
                       ELSE <<Some(perms), Some(metadata.uid), Some(metadata.gid)>>
                 kind == FileKind(metadata)
                 our_data == IF maybe_parent_data # None THEN maybe_parent_data
                             ELSE Some([perms |-> perms, uid |-> metadata.uid,
                                        gid |-> metadata.gid, kind |-> kind])
             IN  Ok([override_perms |-> ov[1],
                     override_uid |-> ov[2],
                     override_gid |-> ov[3],
                     kind |-> kind,
                     children |->
                        IF is_dir(metadata)
                        THEN IF ls(p).ok
                             THEN Ok([i \in 1..Len(ls(p).val) |->
                                        build_tree_stale(ls(p).val[i], our_data)])
                             ELSE Err(ls(p).err)
                        ELSE Ok(<<>>)])]

RECURSIVE build_tree(_, _)
build_tree(p, maybe_parent_data) ==
    [name |-> p.name,
     data |->
        IF ~p.meta.ok THEN Err(p.meta.err)
        ELSE LET metadata == p.meta.val
                 perms == metadata.st_mode % PermModulus
                 ov == IF maybe_parent_data # None
                       THEN LET parent_data == maybe_parent_data[1]
                            IN  <<maybe_override(parent_data.perms, perms),
                                  maybe_override(parent_data.uid, metadata.uid),
                                  maybe_override(parent_data.gid, metadata.gid)>>
                       ELSE <<Some(perms), Some(metadata.uid), Some(metadata.gid)>>
                 kind == FileKind(metadata)
                 our_data == Some([perms |-> perms, uid |-> metadata.uid,
                                   gid |-> metadata.gid, kind |-> kind])
             IN  Ok([override_perms |-> ov[1],
                     override_uid |-> ov[2],
                     override_gid |-> ov[3],
                     kind |-> kind,
                     children |->
                        IF is_dir(metadata)
                        THEN IF ls(p).ok
                             THEN Ok([i \in 1..Len(ls(p).val) |->
                                        build_tree(ls(p).val[i], our_data)])
                             ELSE Err(ls(p).err)
                        ELSE Ok(<<>>)])]

RECURSIVE prune_drop_errors(_)
\* prune gone wrong: a node whose listing failed is kept only for its overrides
prune_drop_errors(node) ==
    IF node.data.ok
    THEN LET d == node.data.val
             all_inherited == d.override_perms = None
                              /\ d.override_uid = None
                              /\ d.override_gid = None
             new_children ==
                IF d.children.ok
                THEN Concat([i \in 1..Len(d.children.val) |->
                                prune_drop_errors(d.children.val[i])])
                ELSE <<>>
         IN  IF all_inherited /\ new_children = <<>>
             THEN None
             ELSE Some([name |-> node.name,
                        data |-> Ok([override_perms |-> d.override_perms,
                                     override_uid |-> d.override_uid,
                                     override_gid |-> d.override_gid,
                                     kind |-> d.kind,
                                     children |-> IF d.children.ok THEN Ok(new_children)
                                                  ELSE Err(d.children.err)])])
    ELSE Some([name |-> node.name, data |-> Err(node.data.err)])

RECURSIVE prune_unpruned_test(_)
\* prune gone wrong: it tests the children before pruning, not the surviving ones
prune_unpruned_test(node) ==
    IF node.data.ok
    THEN LET d == node.data.val
         IN  IF d.children.ok
             THEN LET cs == d.children.val
                      all_inherited == d.override_perms = None
                                       /\ d.override_uid = None
                                       /\ d.override_gid = None
                      new_children ==
                        Concat([i \in 1..Len(cs) |-> prune_unpruned_test(cs[i])])
                  IN  IF all_inherited /\ cs = <<>>
                      THEN None
                      ELSE Some([name |-> node.name,
                                 data |-> Ok([override_perms |-> d.override_perms,
                                              override_uid |-> d.override_uid,
                                              override_gid |-> d.override_gid,
                                              kind |-> d.kind,
                                              children |-> Ok(new_children)])])
             ELSE Some([name |-> node.name,
                        data |-> Ok([override_perms |-> d.override_perms,
                                     override_uid |-> d.override_uid,
                                     override_gid |-> d.override_gid,
                                     kind |-> d.kind,
                                     children |-> Err(d.children.err)])])
    ELSE Some([name |-> node.name, data |-> Err(node.data.err)])

RECURSIVE prune(_)
prune(node) ==
    IF node.data.ok
    THEN LET d == node.data.val
         IN  IF d.children.ok
             THEN LET cs == d.children.val
                      all_inherited == d.override_perms = None
                                       /\ d.override_uid = None
                                       /\ d.override_gid = None
                      new_children == Concat([i \in 1..Len(cs) |-> prune(cs[i])])
                  IN  IF all_inherited /\ new_children = <<>>
                      THEN None
                      ELSE Some([name |-> node.name,
                                 data |-> Ok([override_perms |-> d.override_perms,
                                              override_uid |-> d.override_uid,
                                              override_gid |-> d.override_gid,
                                              kind |-> d.kind,
                                              children |-> Ok(new_children)])])
             ELSE Some([name |-> node.name,
                        data |-> Ok([override_perms |-> d.override_perms,
                                     override_uid |-> d.override_uid,
                                     override_gid |-> d.override_gid,
                                     kind |-> d.kind,
                                     children |-> Err(d.children.err)])])
    ELSE Some([name |-> node.name, data |-> Err(node.data.err)])

-----------------------------------------------------------------------------
(* Formatting *)

RECURSIVE Digits(_, _)
Digits(n, base) ==
    IF n < base THEN <<n>> ELSE Append(Digits(n \div base, base), n % base)

ZeroPad(ds, width) ==
    IF Len(ds) >= width THEN ds ELSE [i \in 1..(width - Len(ds)) |-> 0] \o ds

\* ASCII of one digit, lower case above 9
DigitChar(d) == IF d < 10 THEN 48 + d ELSE 87 + d

Chars(ds) == [i \in 1..Len(ds) |-> DigitChar(ds[i])]

\* format!("{}", n)
FormatDecimal(n) == Chars(Digits(n, 10))
\* format!("{:04o}", n)
FormatOctal04(n) == Chars(ZeroPad(Digits(n, 8), 4))
\* format!("\\x{:02x}", byte)
FormatHexByte(byte) == <<92, 120>> \o Chars(ZeroPad(Digits(byte, 16), 2))

\* bash_encode: "$(printf "<\xhh of every byte, parts joined by />")"
bash_encode(p) ==
    <<34, 36, 40, 112, 114, 105, 110, 116, 102, 32, 34>>
    \o Concat([i \in 1..Len(p) |->
                 (IF i > 1 THEN <<47>> ELSE <<>>)
                 \o Concat([j \in 1..Len(p[i]) |-> FormatHexByte(p[i][j])])])
    \o <<34, 41, 34>>

\* U+FFFD REPLACEMENT CHARACTER
Replacement == 65533

\* core::str::utf8_char_width: the length the first byte announces, 0 for a byte that
\* cannot start a sequence
utf8_char_width(b) ==
    IF b < 128 THEN 1
    ELSE IF b \in 194..223 THEN 2
    ELSE IF b \in 224..239 THEN 3
    ELSE IF b \in 240..244 THEN 4
    ELSE 0

\* is the byte at position i a continuation byte (10xxxxxx)?
IsContinuation(s, i) == i <= Len(s) /\ s[i] \in 128..191

\* the second byte a three or four byte sequence may have after its first byte b:
\* no overlong form, no surrogate, nothing above U+10FFFF
SecondByteOk(b, s) ==
    /\ Len(s) >= 2
    /\ s[2] \in (IF b = 224 THEN 160..191
                 ELSE IF b = 237 THEN 128..159
                 ELSE IF b = 240 THEN 144..191
                 ELSE IF b = 244 THEN 128..143
                 ELSE 128..191)

\* Utf8Chunks: the code point the front of s decodes to and the bytes it takes; an
\* invalid sequence takes the bytes accepted so far and gives one U+FFFD
DecodeFirst(s) ==
    LET b == s[1]
        w == utf8_char_width(b)
    IN  IF w = 1 THEN [cp |-> b, used |-> 1]
        ELSE IF w = 2
        THEN IF IsContinuation(s, 2)
             THEN [cp |-> (b - 192) * 64 + (s[2] - 128), used |-> 2]
             ELSE [cp |-> Replacement, used |-> 1]
        ELSE IF w = 3
        THEN IF ~SecondByteOk(b, s) THEN [cp |-> Replacement, used |-> 1]
             ELSE IF ~IsContinuation(s, 3) THEN [cp |-> Replacement, used |-> 2]
             ELSE [cp |-> (b - 224) * 4096 + (s[2] - 128) * 64 + (s[3] - 128),
                   used |-> 3]
        ELSE IF w = 4
        THEN IF ~SecondByteOk(b, s) THEN [cp |-> Replacement, used |-> 1]
             ELSE IF ~IsContinuation(s, 3) THEN [cp |-> Replacement, used |-> 2]
             ELSE IF ~IsContinuation(s, 4) THEN [cp |-> Replacement, used |-> 3]
             ELSE [cp |-> (b - 240) * 262144 + (s[2] - 128) * 4096
                            + (s[3] - 128) * 64 + (s[4] - 128),
                   used |-> 4]
        ELSE [cp |-> Replacement, used |-> 1]

RECURSIVE to_string_lossy(_)
\* OsStr::to_string_lossy (String::from_utf8_lossy of the bytes), as code points
to_string_lossy(name) ==
    IF name = <<>> THEN <<>>
    ELSE LET d == DecodeFirst(name)
         IN  <<d.cp>> \o to_string_lossy(SubSeq(name, d.used + 1, Len(name)))

-----------------------------------------------------------------------------
(* NameCache over the system's user and group databases *)

\* the passwd database: uid 0 is "root", no other uid has an entry
get_user_by_uid(uid) == IF uid = 0 THEN Some(<<114, 111, 111, 116>>) ELSE None
\* the group database: gid 0 is "wheel", no other gid has an entry
get_group_by_gid(gid) == IF gid = 0 THEN Some(<<119, 104, 101, 101, 108>>) ELSE None

display_uid(uid) ==
    IF get_user_by_uid(uid) # None THEN get_user_by_uid(uid)[1] ELSE FormatDecimal(uid)

display_gid(gid) ==
    IF get_group_by_gid(gid) # None THEN get_group_by_gid(gid)[1] ELSE FormatDecimal(gid)

-----------------------------------------------------------------------------
(* The two visitors.  A command line is [prog, arg, path]: "<prog> -R <arg> <path>\n". *)

\* the path stack gone wrong: drained from depth + 1 on
PathAfterVisit_late_drain(p, node, depth) ==
    Append(IF Len(p) > depth + 1 THEN SubSeq(p, 1, depth + 1) ELSE p, node.name)

\* the path stack after `path.drain(depth..)` (when longer than depth) and the push
PathAfterVisit(p, node, depth) ==
    Append(IF Len(p) > depth THEN SubSeq(p, 1, depth) ELSE p, node.name)

\* the ownership lines gone wrong: user and group changed by two commands
OwnerLines_separate(data, display_path) ==
    (IF data.override_uid # None
     THEN <<[prog |-> "chown", arg |-> display_uid(data.override_uid[1]),
             path |-> display_path]>>
     ELSE <<>>)
    \o (IF data.override_gid # None
        THEN <<[prog |-> "chgrp", arg |-> display_gid(data.override_gid[1]),
                path |-> display_path]>>
        ELSE <<>>)

OwnerLines(data, display_path) ==
    IF data.override_uid # None /\ data.override_gid # None
    THEN <<[prog |-> "chown",
            arg |-> display_uid(data.override_uid[1]) \o <<58>>
                      \o display_gid(data.override_gid[1]),
            path |-> display_path]>>
    ELSE IF data.override_uid # None
    THEN <<[prog |-> "chown", arg |-> display_uid(data.override_uid[1]),
            path |-> display_path]>>
    ELSE IF data.override_gid # None
    THEN <<[prog |-> "chgrp", arg |-> display_gid(data.override_gid[1]),
            path |-> display_path]>>
    ELSE <<>>

ModeLines(data, display_path) ==
    IF data.override_perms # None
    THEN <<[prog |-> "chmod", arg |-> <<48>> \o FormatOctal04(data.override_perms[1]),
            path |-> display_path]>>
    ELSE <<>>

\* the lines of one node gone wrong: the chmod first
CommandLines_mode_first(node, p) ==
    LET display_path == bash_encode(p)
    IN  IF node.data.ok
        THEN ModeLines(node.data.val, display_path) \o OwnerLines(node.data.val, display_path)
        ELSE <<>>

\* the lines the display_commands closure appends for one node
CommandLines(node, p) ==
    LET display_path == bash_encode(p)
    IN  IF node.data.ok
        THEN OwnerLines(node.data.val, display_path) \o ModeLines(node.data.val, display_path)
        ELSE <<>>

\* the line the display_tree closure appends for one node
TreeLine(node, depth) ==
    [indent |-> depth,
     error |-> ~node.data.ok,
     perms |-> IF node.data.ok /\ node.data.val.override_perms # None
               THEN Some(FormatOctal04(node.data.val.override_perms[1])) ELSE None,
     user |-> IF node.data.ok /\ node.data.val.override_uid # None
              THEN Some(display_uid(node.data.val.override_uid[1])) ELSE None,
     group |-> IF node.data.ok /\ node.data.val.override_gid # None
               THEN Some(display_gid(node.data.val.override_gid[1])) ELSE None,
     name |-> to_string_lossy(node.name)]

\* preorder_traversal: the calls made for the children of a visited node, in order
ChildCalls(call) ==
    IF call.node.data.ok /\ call.node.data.val.children.ok
    THEN LET cs == call.node.data.val.children.val
         IN  [i \in 1..Len(cs) |->
                [node |-> cs[i], depth |-> 1 + call.depth,
                 chain |-> Append(call.chain, cs[i].name)]]
    ELSE <<>>

-----------------------------------------------------------------------------
(* The filesystems the model is checked on.  An entry is                   *)
(* [name, meta: io::Result<[st_mode, uid, gid]>, ls: io::Result<entries>]. *)

S_IFREG == 32768

RootName == <<114>>
\* "a", "b<c3 a9>" (b and e acute in UTF-8), "c", "d<c3 a9>", ...
ChildName(i) == IF i % 2 = 0 THEN <<96 + i, 195, 169>> ELSE <<96 + i>>

\* permission bits 0755 and 02750
PermsValues == {493, 1512}
Ids == {0, 1}

\* two combinations of the three fields that differ in every field
CoarseAttrs == {[perms |-> 493, uid |-> 0, gid |-> 0], [perms |-> 1512, uid |-> 1, gid |-> 1]}

\* "rich": every combination of the three fields; "coarse": the two above
Attrs(family) ==
    IF family = "rich" THEN [perms : PermsValues, uid : Ids, gid : Ids] ELSE CoarseAttrs

Meta(type, a) == Ok([st_mode |-> type + a.perms, uid |-> a.uid, gid |-> a.gid])

File(a) == [name |-> <<>>, meta |-> Meta(S_IFREG, a), ls |-> Err("NotADirectory")]
Dir(a, listing) == [name |-> <<>>, meta |-> Meta(S_IFDIR, a), ls |-> listing]
Unreadable == [name |-> <<>>, meta |-> Err("NotFound"), ls |-> Err("NotFound")]

\* a directory's fields in the entries below that have no further variety
PlainAttrs == [perms |-> 493, uid |-> 0, gid |-> 0]

\* the entries with nothing below them: files, an empty directory, a directory that
\* cannot be listed, an entry whose metadata cannot be read
Leaves(A) ==
    {File(a) : a \in A}
    \cup {Dir(PlainAttrs, Ok(<<>>)), Dir(PlainAttrs, Err("PermissionDenied")), Unreadable}

\* the entries of a directory, named; read_dir returns them in name order or in reverse
Named(f, reversed) ==
    [i \in 1..Len(f) |->
        [f[i] EXCEPT !.name = ChildName(IF reversed THEN Len(f) + 1 - i ELSE i)]]

\* read_dir's orders: both in the "coarse" family, name order in the "rich" one
Orders(family) == IF family = "coarse" THEN BOOLEAN ELSE {FALSE}

RECURSIVE Forests(_, _)
\* the entries with exactly n entries at and below them, the top one's fields in A
Top(A, family, n) ==
    IF n = 1 THEN Leaves(A)
    ELSE {Dir(a, Ok(Named(f, r))) :
            a \in A, f \in Forests(family, n - 1), r \in Orders(family)}
\* the sequences of entries with n entries in all
Forests(family, n) ==
    IF n = 0 THEN {<<>>}
    ELSE UNION {{<<t>> \o f : t \in Top(Attrs(family), family, k),
                              f \in Forests(family, n - k)} : k \in 1..n}

\* the filesystems of a family with exactly n entries, rooted at RootName, the root's
\* fields being one of the two combinations
Rooted(family, n) == {[t EXCEPT !.name = RootName] : t \in Top(CoarseAttrs, family, n)}

RECURSIVE SeqsUpTo(_, _)
SeqsUpTo(S, n) ==
    IF n = 0 THEN {<<>>}
    ELSE SeqsUpTo(S, n - 1)
         \cup {Append(q, x) : q \in {r \in SeqsUpTo(S, n - 1) : Len(r) = n - 1}, x \in S}

\* the one path that exists, and one that does not
ArgNames == {"r", "nope"}

\* fs::canonicalize
canonicalize(name) == IF name = "r" THEN Some(name) ELSE None

-----------------------------------------------------------------------------
(* main *)

Init ==
    /\ \E n \in 1..MaxNodes : fs \in Rooted("coarse", n)
    /\ args \in [command_mode : BOOLEAN,
                 directories : SeqsUpTo(ArgNames, MaxArgs) \ {<<>>}]
    /\ pc = "canonicalize"
    /\ idx = 1
    /\ paths = <<>>
    /\ root = None
    /\ todo = <<>>
    /\ path = <<>>
    /\ output = <<>>
    /\ last = None
    /\ stdout = <<>>
    /\ status = None

\* `if let Ok(fullpath) = fs::canonicalize(&path) { paths.push(fullpath) }`
CanonicalizeOk ==
    /\ pc = "canonicalize"
    /\ idx <= Len(args.directories)
    /\ canonicalize(args.directories[idx]) # None
    /\ paths' = Append(paths, canonicalize(args.directories[idx])[1])
    /\ idx' = idx + 1
    /\ UNCHANGED <<args, fs, pc, root, todo, path, output, last, stdout, status>>

\* `else { println!(...); return; }`: main returns, the process exits with status 0
CanonicalizeFail ==
    /\ pc = "canonicalize"
    /\ idx <= Len(args.directories)
    /\ canonicalize(args.directories[idx]) = None
    /\ stdout' = Append(stdout, [what |-> "error", arg |-> args.directories[idx],
                                 lines |-> <<>>])
    /\ pc' = "exited"
    /\ status' = Some(0)
    /\ UNCHANGED <<args, fs, idx, paths, root, todo, path, output, last>>

\* the first loop is over: on to `for pathbuf in paths.iter()`
CanonicalizeDone ==
    /\ pc = "canonicalize"
    /\ idx > Len(args.directories)
    /\ pc' = "roots"
    /\ idx' = 1
    /\ UNCHANGED <<args, fs, paths, root, todo, path, output, last, stdout, status>>

\* `let root = build_tree(&pathbuf, &None);`
BuildRoot ==
    /\ pc = "roots"
    /\ idx <= Len(paths)
    /\ root' = Some(build_tree(fs, None))
    /\ pc' = "built"
    /\ UNCHANGED <<args, fs, idx, paths, todo, path, output, last, stdout, status>>

FirstCall(node) == <<[node |-> node, depth |-> 0, chain |-> <<node.name>>]>>

\* display_commands(&root) up to the call of preorder_traversal
DisplayCommands ==
    /\ pc = "built"
    /\ args.command_mode
    /\ output' = <<>>
    /\ path' = <<>>
    /\ todo' = FirstCall(root[1])
    /\ last' = None
    /\ pc' = "commands"
    /\ UNCHANGED <<args, fs, idx, paths, root, stdout, status>>

\* display_tree(&root) up to the call of preorder_traversal
DisplayTree ==
    /\ pc = "built"
    /\ ~args.command_mode
    /\ output' = <<>>
    /\ path' = <<>>
    /\ todo' = FirstCall(root[1])
    /\ last' = None
    /\ pc' = "tree"
    /\ UNCHANGED <<args, fs, idx, paths, root, stdout, status>>

\* one call of preorder_traversal with the display_commands closure
VisitCommands(at) ==
    /\ pc = at
    /\ todo # <<>>
    /\ LET call == Head(todo)
           p == PathAfterVisit(path, call.node, call.depth)
       IN  /\ path' = p
           /\ output' = output \o CommandLines(call.node, p)
           /\ last' = Some([node |-> call.node, depth |-> call.depth,
                            chain |-> call.chain, before |-> Len(path)])
           /\ todo' = ChildCalls(call) \o Tail(todo)
    /\ UNCHANGED <<args, fs, pc, idx, paths, root, stdout, status>>

\* one call of preorder_traversal with the display_tree closure
VisitTree ==
    /\ pc = "tree"
    /\ todo # <<>>
    /\ LET call == Head(todo)
       IN  /\ output' = Append(output, TreeLine(call.node, call.depth))
           /\ last' = Some([node |-> call.node, depth |-> call.depth,
                            chain |-> call.chain, before |-> Len(path)])
           /\ todo' = ChildCalls(call) \o Tail(todo)
    /\ UNCHANGED <<args, fs, pc, idx, paths, root, path, stdout, status>>

\* `print!("{}", output)`, and the next round of the loop over paths
EmitOutput ==
    /\ pc \in {"commands", "tree"}
    /\ todo = <<>>
    /\ stdout' = Append(stdout, [what |-> pc, arg |-> paths[idx], lines |-> output])
    /\ pc' = "roots"
    /\ idx' = idx + 1
    /\ UNCHANGED <<args, fs, paths, root, todo, path, output, last, status>>

\* main returns after the last path
MainReturn ==
    /\ pc = "roots"
    /\ idx > Len(paths)
    /\ pc' = "exited"
    /\ status' = Some(0)
    /\ UNCHANGED <<args, fs, idx, paths, root, todo, path, output, last, stdout>>

Next ==
    \/ CanonicalizeOk
    \/ CanonicalizeFail
    \/ CanonicalizeDone
    \/ BuildRoot
    \/ DisplayCommands
    \/ DisplayTree
    \/ VisitCommands("commands")
    \/ VisitTree
    \/ EmitOutput
    \/ MainReturn

Spec == Init /\ [][Next]_vars

-----------------------------------------------------------------------------
(* The functions on their own: build_tree, then prune (or not), then       *)
(* display_commands, on attribute-complete and on shape-complete inputs.   *)

InitLib ==
    /\ \/ \E n \in 1..MaxNodes : fs \in Rooted("rich", n)
       \/ \E n \in 1..MaxWalkNodes : fs \in Rooted("coarse", n)
    /\ args = [command_mode |-> TRUE, directories |-> <<"r">>]
    /\ pc = "lib"
    /\ idx = 1
    /\ paths = <<"r">>
    /\ root = None
    /\ todo = <<>>
    /\ path = <<>>
    /\ output = <<>>
    /\ last = None
    /\ stdout = <<>>
    /\ status = None

LibBuild ==
    /\ pc = "lib"
    /\ root' = Some(build_tree(fs, None))
    /\ pc' = "lib_built"
    /\ UNCHANGED <<args, fs, idx, paths, todo, path, output, last, stdout, status>>

LibPrune ==
    /\ pc = "lib_built"
    /\ root' = prune(root[1])
    /\ pc' = "lib_pruned"
    /\ UNCHANGED <<args, fs, idx, paths, todo, path, output, last, stdout, status>>

LibDisplayCommands ==
    /\ pc \in {"lib_built", "lib_pruned"}
    /\ root # None
    /\ output' = <<>>
    /\ path' = <<>>
    /\ todo' = FirstCall(root[1])
    /\ last' = None
    /\ pc' = IF pc = "lib_built" THEN "lib_commands" ELSE "lib_commands_pruned"
    /\ UNCHANGED <<args, fs, idx, paths, root, stdout, status>>

LibEmitOutput ==
    /\ pc \in {"lib_commands", "lib_commands_pruned"}
    /\ todo = <<>>
    /\ stdout' = Append(stdout, [what |-> "commands", arg |-> paths[idx], lines |-> output])
    /\ pc' = IF pc = "lib_commands" THEN "lib_done" ELSE "lib_done_pruned"
    /\ UNCHANGED <<args, fs, idx, paths, root, todo, path, output, last, status>>

NextLib ==
    \/ LibBuild
    \/ LibPrune
    \/ LibDisplayCommands
    \/ VisitCommands("lib_commands")
    \/ VisitCommands("lib_commands_pruned")
    \/ LibEmitOutput

SpecLib == InitLib /\ [][NextLib]_vars

-----------------------------------------------------------------------------
(* What the properties are stated with *)

IsPrefix(a, b) == Len(a) <= Len(b) /\ SubSeq(b, 1, Len(a)) = a
IsProperPrefix(a, b) == Len(a) < Len(b) /\ SubSeq(b, 1, Len(a)) = a

RECURSIVE FsEntries(_, _, _)
\* every entry of a filesystem: its names from the root on, itself, its directory
FsEntries(p, chain, parent) ==
    {[chain |-> chain, entry |-> p, parent |-> parent]}
    \cup (IF p.ls.ok
          THEN UNION {FsEntries(p.ls.val[i], Append(chain, p.ls.val[i].name), Some(p)) :
                        i \in 1..Len(p.ls.val)}
          ELSE {})

AllEntries == FsEntries(fs, <<fs.name>>, None)

RECURSIVE TreeNodes(_, _)
\* every node of a tree, with its names from the root on
TreeNodes(node, chain) ==
    {[chain |-> chain, node |-> node]}
    \cup (IF node.data.ok /\ node.data.val.children.ok
          THEN LET cs == node.data.val.children.val
               IN  UNION {TreeNodes(cs[i], Append(chain, cs[i].name)) : i \in 1..Len(cs)}
          ELSE {})

NodesOf(tree) == TreeNodes(tree, <<tree.name>>)

HasOverride(node) ==
    /\ node.data.ok
    /\ \/ node.data.val.override_perms # None
       \/ node.data.val.override_uid # None
       \/ node.data.val.override_gid # None

HasError(node) == ~node.data.ok \/ ~node.data.val.children.ok

ChildrenOf(node) ==
    IF node.data.ok /\ node.data.val.children.ok THEN node.data.val.children.val ELSE <<>>

\* the nodes that carry an error, with the error
ErrorsOf(tree) ==
    {[chain |-> t.chain,
      err |-> IF t.node.data.ok THEN t.node.data.val.children.err ELSE t.node.data.err] :
        t \in {u \in NodesOf(tree) : HasError(u.node)}}

AllProbesSucceed ==
    \A e \in AllEntries : e.entry.meta.ok /\ (is_dir(e.entry.meta.val) => e.entry.ls.ok)

\* the value of an ASCII digit
DigitValue(c) == IF c < 58 THEN c - 48 ELSE c - 87

RECURSIVE ParseNumber(_, _)
ParseNumber(text, base) ==
    IF text = <<>> THEN 0
    ELSE ParseNumber(SubSeq(text, 1, Len(text) - 1), base) * base
         + DigitValue(text[Len(text)])

RECURSIVE DecodeParts(_)
\* what printf makes of \xhh groups joined by /, split at the /
DecodeParts(text) ==
    IF text = <<>> THEN <<<<>>>>
    ELSE IF Head(text) = 47 THEN <<<<>>>> \o DecodeParts(Tail(text))
    ELSE LET rest == DecodeParts(SubSeq(text, 5, Len(text)))
             byte == 16 * DigitValue(text[3]) + DigitValue(text[4])
         IN  <<<<byte>> \o Head(rest)>> \o Tail(rest)

\* the path a shell passes for the word bash_encode made: the names, outermost first
bash_decode(word) == DecodeParts(SubSeq(word, 12, Len(word) - 3))

\* chown and chgrp look a name up in the database, and read it as a number if it is not there
UidOfName(text) ==
    IF \E u \in Ids : get_user_by_uid(u) = Some(text)
    THEN CHOOSE u \in Ids : get_user_by_uid(u) = Some(text)
    ELSE ParseNumber(text, 10)

GidOfName(text) ==
    IF \E g \in Ids : get_group_by_gid(g) = Some(text)
    THEN CHOOSE g \in Ids : get_group_by_gid(g) = Some(text)
    ELSE ParseNumber(text, 10)

HasColon(text) == \E i \in 1..Len(text) : text[i] = 58
ColonAt(text) == CHOOSE i \in 1..Len(text) : text[i] = 58 /\ \A j \in 1..(i - 1) : text[j] # 58
BeforeColon(text) == SubSeq(text, 1, ColonAt(text) - 1)
AfterColon(text) == SubSeq(text, ColonAt(text) + 1, Len(text))

\* the fields one command line writes
Written(line, old) ==
    IF line.prog = "chown"
    THEN IF HasColon(line.arg)
         THEN [old EXCEPT !.uid = UidOfName(BeforeColon(line.arg)),
                          !.gid = GidOfName(AfterColon(line.arg))]
         ELSE [old EXCEPT !.uid = UidOfName(line.arg)]
    ELSE IF line.prog = "chgrp"
    THEN [old EXCEPT !.gid = GidOfName(line.arg)]
    ELSE [old EXCEPT !.perms = ParseNumber(line.arg, 8) % PermModulus]

\* one recursive command: it writes every entry at and below its path
RunLine(st, line) ==
    [c \in DOMAIN st |->
        IF IsPrefix(bash_decode(line.path), c) THEN Written(line, st[c]) ELSE st[c]]

RECURSIVE RunLines(_, _)
RunLines(st, lines) ==
    IF lines = <<>> THEN st ELSE RunLines(RunLine(st, Head(lines)), Tail(lines))

Fields(metadata) ==
    [perms |-> metadata.st_mode % PermModulus, uid |-> metadata.uid, gid |-> metadata.gid]

\* the (mode, uid, gid) of every entry as the filesystem has them
Actual == [c \in {e.chain : e \in AllEntries} |->
             Fields((CHOOSE e \in AllEntries : e.chain = c).entry.meta.val)]

\* a fresh copy: every entry has the root's (mode, uid, gid)
Fresh == [c \in {e.chain : e \in AllEntries} |-> Fields(fs.meta.val)]

LibRendered == pc \in {"lib_done", "lib_done_pruned"}
LibRendering == pc \in {"lib_commands", "lib_commands_pruned"}

-----------------------------------------------------------------------------
\* C1: when every probe and listing succeeded, running the emitted commands in order
\* on a copy whose entries all have the root's (mode, uid, gid) gives every entry the
\* (mode, uid, gid) it has in the filesystem.
T_C1 ==
    (LibRendered /\ AllProbesSucceed)
        => RunLines(Fresh, stdout[Len(stdout)].lines) = Actual

\* a rendered filesystem with an entry two levels down that differs from the root
W_C1 ==
    /\ LibRendered
    /\ AllProbesSucceed
    /\ \E e \in AllEntries : Len(e.chain) = 3 /\ Actual[e.chain] # Fresh[e.chain]
    /\ \E e \in AllEntries : Len(e.chain) = 2 /\ Actual[e.chain] # Fresh[e.chain]
    /\ Len(stdout[Len(stdout)].lines) >= 4

\* the lines of the output buffer that are addressed to a node
LinesFor(chain) == SelectSeq(output, LAMBDA l : bash_decode(l.path) = chain)

IsOwnerLine(l) == l.prog \in {"chown", "chgrp"}

\* C2: in the output of display_commands every command of a node comes before every
\* command of a proper descendant, and a node's chown/chgrp comes before its chmod.
T_C2 ==
    LibRendered =>
        \A j \in 1..Len(output) :
            LET later == bash_decode(output[j].path)
            IN  \A i \in 1..(j - 1) :
                    LET earlier == bash_decode(output[i].path)
                    IN  /\ ~IsProperPrefix(later, earlier)
                        /\ ~(/\ later = earlier
                             /\ IsOwnerLine(output[j])
                             /\ output[i].prog = "chmod")

\* a node with an ownership command and a chmod, and commands of a node two levels below
W_C2 ==
    /\ LibRendered
    /\ \E i, j, k \in 1..Len(output) :
        /\ output[i].path = output[j].path
        /\ IsOwnerLine(output[i])
        /\ output[j].prog = "chmod"
        /\ Len(bash_decode(output[i].path)) = 1
        /\ Len(bash_decode(output[k].path)) = 3

\* C3: a probed node's override of a field is present, with the node's own value, when
\* the node is the root or the value differs from its directory's actual value, and
\* absent otherwise; each field on its own, whatever the directory itself overrode.
ExpectedOverride(e, field) ==
    IF e.parent = None \/ Fields(e.entry.meta.val)[field] # Fields(e.parent[1].meta.val)[field]
    THEN Some(Fields(e.entry.meta.val)[field])
    ELSE None

T_C3 ==
    (pc = "lib_built") =>
        \A e \in AllEntries :
            \E t \in NodesOf(root[1]) :
                /\ t.chain = e.chain
                /\ t.node.data.ok = e.entry.meta.ok
                /\ e.entry.meta.ok =>
                    /\ t.node.data.val.override_perms = ExpectedOverride(e, "perms")
                    /\ t.node.data.val.override_uid = ExpectedOverride(e, "uid")
                    /\ t.node.data.val.override_gid = ExpectedOverride(e, "gid")

\* a built tree where a directory overrides uid only and an entry in it, equal to the
\* directory in uid and so different from the root, overrides gid only
W_C3 ==
    /\ pc = "lib_built"
    /\ \E t, u \in NodesOf(root[1]) :
        /\ Len(t.chain) = 2
        /\ u.chain = Append(t.chain, u.node.name)
        /\ t.node.data.ok /\ u.node.data.ok
        /\ t.node.data.val.override_uid # None
        /\ t.node.data.val.override_gid = None
        /\ t.node.data.val.override_perms = None
        /\ u.node.data.val.override_uid = None
        /\ u.node.data.val.override_gid # None
        /\ u.node.data.val.override_perms = None

\* C4: prune keeps a node exactly when its metadata probe failed, its listing failed,
\* one of its overrides is present or one of its children survives prune; so every node
\* of a pruned tree has an override, a child or an error, and no error is lost.
Survives(node) == prune(node) # None

T_C4 ==
    /\ (pc = "lib_built") =>
        \A t \in NodesOf(root[1]) :
            Survives(t.node) <=>
                \/ HasError(t.node)
                \/ HasOverride(t.node)
                \/ \E i \in 1..Len(ChildrenOf(t.node)) : Survives(ChildrenOf(t.node)[i])
    /\ (pc = "lib_pruned" /\ root # None) =>
        /\ \A t \in NodesOf(root[1]) :
                HasError(t.node) \/ HasOverride(t.node) \/ ChildrenOf(t.node) # <<>>
        /\ ErrorsOf(root[1]) = ErrorsOf(build_tree(fs, None))

\* a pruned tree that lost a node, kept a node without overrides for its child's sake,
\* and kept an error
W_C4 ==
    /\ pc = "lib_pruned"
    /\ root # None
    /\ Cardinality(NodesOf(root[1])) < Cardinality(NodesOf(build_tree(fs, None)))
    /\ \E t \in NodesOf(root[1]) : ~HasOverride(t.node) /\ ~HasError(t.node)
    /\ ErrorsOf(root[1]) # {}

\* C5: pruning a pruned tree gives the same tree.
T_C5 ==
    (pc = "lib_pruned" /\ root # None) =>
        \A t \in NodesOf(root[1]) : prune(t.node) = Some(t.node)

\* a pruned tree that differs from the built one and still has children
W_C5 ==
    /\ pc = "lib_pruned"
    /\ root # None
    /\ root[1] # build_tree(fs, None)
    /\ ChildrenOf(root[1]) # <<>>

\* C6: main prunes the built tree before it hands it to a renderer, so an entry without
\* overrides, errors and retained descendants is never visited by a renderer.
CX_C6 ==
    /\ (pc \in {"commands", "tree"}) => Some(root[1]) = prune(build_tree(fs, None))
    /\ (pc \in {"commands", "tree"} /\ last # None) => Survives(last[1].node)

Unresolved == {i \in 1..Len(args.directories) : canonicalize(args.directories[i]) = None}

\* C7: when an argument cannot be canonicalized main prints a diagnostic naming it, exits
\* with a non-zero status and builds and renders nothing; otherwise it renders every root
\* in argument order.
CX_C7 ==
    (pc = "exited") =>
        IF Unresolved # {}
        THEN /\ Len(stdout) = 1
             /\ stdout[1].what = "error"
             /\ \E i \in Unresolved : stdout[1].arg = args.directories[i]
             /\ root = None
             /\ status # None /\ status[1] # 0
        ELSE /\ Len(stdout) = Len(args.directories)
             /\ \A i \in 1..Len(stdout) :
                    /\ stdout[i].what # "error"
                    /\ Some(stdout[i].arg) = canonicalize(args.directories[i])

RECURSIVE LexLess(_, _)
\* lexicographic order of byte sequences
LexLess(a, b) ==
    IF b = <<>> THEN FALSE
    ELSE IF a = <<>> THEN TRUE
    ELSE IF Head(a) # Head(b) THEN Head(a) < Head(b)
    ELSE LexLess(Tail(a), Tail(b))

\* C8: in a built tree every listed children sequence ascends in the lexicographic order
\* of the names' bytes, whatever order the listing came in.
CX_C8 ==
    (root # None) =>
        \A t \in NodesOf(root[1]) :
            \A i \in 1..(Len(ChildrenOf(t.node)) - 1) :
                LexLess(ChildrenOf(t.node)[i].name, ChildrenOf(t.node)[i + 1].name)

Count(lines, prog) == Len(SelectSeq(lines, LAMBDA l : l.prog = prog))

\* C9: a node's commands are one chown user:group when uid and gid are overridden, one
\* chown user when only uid is, one chgrp group when only gid is, none when neither is,
\* and one chmod of 0 and the four octal digits of the mode exactly when the mode is
\* overridden; a node with failed metadata or without overrides has no command; a node
\* with a failed listing has its own commands and the nodes after it theirs.
Selected(node, lines) ==
    IF ~node.data.ok THEN lines = <<>>
    ELSE LET d == node.data.val
             owner == SelectSeq(lines, IsOwnerLine)
             mode == SelectSeq(lines, LAMBDA l : l.prog = "chmod")
         IN  /\ Len(lines) = Len(owner) + Len(mode)
             /\ IF d.override_uid # None /\ d.override_gid # None
                THEN /\ Len(owner) = 1
                     /\ owner[1].prog = "chown"
                     /\ HasColon(owner[1].arg)
                     /\ UidOfName(BeforeColon(owner[1].arg)) = d.override_uid[1]
                     /\ GidOfName(AfterColon(owner[1].arg)) = d.override_gid[1]
                ELSE IF d.override_uid # None
                THEN /\ Len(owner) = 1
                     /\ owner[1].prog = "chown"
                     /\ ~HasColon(owner[1].arg)
                     /\ UidOfName(owner[1].arg) = d.override_uid[1]
                ELSE IF d.override_gid # None
                THEN /\ Len(owner) = 1
                     /\ owner[1].prog = "chgrp"
                     /\ ~HasColon(owner[1].arg)
                     /\ GidOfName(owner[1].arg) = d.override_gid[1]
                ELSE owner = <<>>
             /\ IF d.override_perms # None
                THEN /\ Len(mode) = 1
                     /\ Len(mode[1].arg) = 5
                     /\ mode[1].arg[1] = 48
                     /\ \A k \in 2..5 : mode[1].arg[k] \in 48..55
                     /\ ParseNumber(Tail(mode[1].arg), 8) = d.override_perms[1]
                     /\ d.override_perms[1] \in 0..(PermModulus - 1)
                ELSE mode = <<>>

T_C9 ==
    LibRendered =>
        /\ \A t \in NodesOf(root[1]) : Selected(t.node, LinesFor(t.chain))
        /\ \A i \in 1..Len(output) :
                \E t \in NodesOf(root[1]) : bash_decode(output[i].path) = t.chain

\* a directory with a failed listing that has commands, followed by a sibling whose
\* ownership command names a user alone or a group alone
W_C9 ==
    /\ LibRendered
    /\ \E t, u \in NodesOf(root[1]) :
        /\ t.node.data.ok /\ ~t.node.data.val.children.ok
        /\ Len(u.chain) = Len(t.chain)
        /\ \E i, j \in 1..Len(output) :
            /\ i < j
            /\ bash_decode(output[i].path) = t.chain
            /\ bash_decode(output[j].path) = u.chain
            /\ IsOwnerLine(output[j])
            /\ ~HasColon(output[j].arg)
    /\ Len(output) >= 4

\* C10: at every visit of a node at depth d the path stack had at least d entries
\* before, and has exactly the d+1 names from the root to the node after; the lines the
\* visit appended are the node's, addressed to that path.
T_C10 ==
    (LibRendering /\ last # None) =>
        LET mine == CommandLines(last[1].node, last[1].chain)
        IN  /\ last[1].before >= last[1].depth
            /\ Len(path) = last[1].depth + 1
            /\ path = last[1].chain
            /\ Len(output) >= Len(mine)
            /\ SubSeq(output, Len(output) - Len(mine) + 1, Len(output)) = mine
            /\ \A i \in 1..Len(mine) : bash_decode(mine[i].path) = last[1].chain

\* a visit of a node with failed metadata that backtracks two levels
W_C10 ==
    /\ LibRendering
    /\ last # None
    /\ last[1].before >= last[1].depth + 2
    /\ ~last[1].node.data.ok

====
